---- MODULE Spec2Model ----
(***************************************************************************)
(* The deferred drawing pipeline of src/video/canvas.cpp: Canvas buffers   *)
(* DrawingRequests allocated in an obstack, stable-sorts them by layer in  *)
(* render, dispatches them to a painter, and destructs them in clear.      *)
(*                                                                         *)
(* Coordinates are integers (the floats of the code hold whole pixels in   *)
(* every call modelled here).  Alpha values are exact multiples of 1/4:    *)
(* the number n stands for the float n/4, and all alphas fed in are 0, 1/2 *)
(* or 1, whose float products are exact.                                   *)
(***************************************************************************)
EXTENDS Integers, Sequences, FiniteSets

VARIABLES
  m_target,     \* Canvas::m_target
  m_context,    \* the DrawingContext the canvas refers to (its current state)
  m_obst,       \* the obstack: the objects placement-constructed in it, in order
  m_requests,   \* Canvas::m_requests: pointers (indices into m_obst)
  aborted,      \* an assert() has failed and the process is gone
  op,           \* the last Canvas call and its arguments
  dispatched,   \* the backend calls the last Canvas call made, in order
  destructed    \* the destructor calls the last Canvas call made, in order

vars == <<m_target, m_context, m_obst, m_requests, aborted, op,
          dispatched, destructed>>

----------------------------------------------------------------------------
(* Bounds of the model. *)

\* most requests one frame buffers in the pipeline specification
MaxRequests == 3

\* most obstack objects one frame constructs in the draw-call specification
MaxObjects == 2

----------------------------------------------------------------------------
(* Values of the collaborating types. *)

NULL == 0

Vector(x, y) == [x |-> x, y |-> y]

VecAdd(a, b) == Vector(a.x + b.x, a.y + b.y)

VecSub(a, b) == Vector(a.x - b.x, a.y - b.y)

\* Rectf(left, top, right, bottom)
Rectf(left, top, right, bottom) == [p1 |-> Vector(left, top), p2 |-> Vector(right, bottom)]

\* Rectf(const Vector& np1, const Sizef& size)
RectfPS(np1, size) == [p1 |-> np1, p2 |-> VecAdd(np1, size)]

get_left(r) == r.p1.x

get_top(r) == r.p1.y

get_right(r) == r.p2.x

get_bottom(r) == r.p2.y

get_width(r) == r.p2.x - r.p1.x

get_height(r) == r.p2.y - r.p1.y

get_size(r) == Vector(get_width(r), get_height(r))

\* Color(red, green, blue, alpha); the three colour channels are kept as a name
Color(rgb, alpha) == [rgb |-> rgb, alpha |-> alpha]

\* float multiplication of two alphas (n stands for n/4)
FMul(a, b) == (a * b) \div 4

\* Color(1.0f, 1.0f, 1.0f): opaque white
White == Color("white", 4)

\* DrawingEffect is a bitmask, kept as the set of the bits that are set
NO_EFFECT == {}

HORIZONTAL_FLIP == {"HORIZONTAL_FLIP"}

VERTICAL_FLIP == {"VERTICAL_FLIP"}

\* a ^ b on two bitmasks
EffectOr(a, b) == a \cup b

EffectXor(a, b) == (a \ b) \cup (b \ a)

\* the layer the filters of render compare against
LAYER_LIGHTMAP == 450

----------------------------------------------------------------------------
(* The collaborators canvas.cpp only uses: Surface, Transform. *)

\* a Surface: its size, its flip flag and the texture it wraps
Surface(w, h, flipx, texture) == [width |-> w, height |-> h, flipx |-> flipx, texture |-> texture]

\* the surfaces that exist; a SurfacePtr is NULL or the number of one of them
Surfaces == << Surface(2, 1, FALSE, "tux"), Surface(2, 1, TRUE, "tux-flipped") >>

\* *surface
Deref(surface) == Surfaces[surface]

\* Transform::apply: an affine (translating) map of a position
TransformApply(transform, v) == VecSub(v, transform.translation)

\* Blend(): the default blend factors
DefaultBlend == "Blend()"

\* DrawingRequest(): the request as its constructor leaves it
NewDrawingRequest ==
  [kind |-> "DrawingRequest", dtor |-> 0,
   type |-> "RequestType()", layer |-> 0, drawing_effect |-> NO_EFFECT,
   alpha |-> 0, blend |-> DefaultBlend, angle |-> 0, color |-> White,
   request_data |-> NULL]

----------------------------------------------------------------------------
(* canvas.cpp *)

effect_from_surface(surface) ==
  IF surface.flipx THEN HORIZONTAL_FLIP ELSE NO_EFFECT

\* the two effects combined with | where the code has ^
SurfaceEffectOr(ctx, surface) ==
  EffectOr(ctx.transform.drawing_effect, effect_from_surface(surface))

\* m_context.transform().drawing_effect ^ effect_from_surface(*surface)
SurfaceEffect(ctx, surface) ==
  EffectXor(ctx.transform.drawing_effect, effect_from_surface(surface))

\* the transform applied and the corner of the viewport left out
ApplyTranslateWithoutViewport(ctx, pos) == TransformApply(ctx.transform, pos)

\* Canvas::apply_translate under the context ctx
ApplyTranslate(ctx, pos) ==
  VecAdd(TransformApply(ctx.transform, pos),
         Vector(ctx.viewport.left, ctx.viewport.top))

apply_translate(pos) == ApplyTranslate(m_context, pos)

\* new(m_obst) T(): the object is constructed at the end of the obstack
Alloc(obst, obj) == Append(obst, obj)

\* the draw calls make no backend call and run no destructor
NoCalls == dispatched' = <<>> /\ destructed' = <<>>

\* the tail of a draw call without "request->request_data = data"
EnqueueWithoutData(request, data) ==
  /\ m_obst' = Alloc(Alloc(m_obst, request), data)
  /\ m_requests' = Append(m_requests, Len(m_obst) + 1)
  /\ dispatched' = <<>>
  /\ destructed' = <<>>
  /\ UNCHANGED <<m_target, m_context, aborted>>

\* the tail of a draw call putting the request at the front of the buffer
EnqueueAtFront(request, data) ==
  /\ m_obst' = Alloc(Alloc(m_obst, [request EXCEPT !.request_data = Len(m_obst) + 2]), data)
  /\ m_requests' = <<Len(m_obst) + 1>> \o m_requests
  /\ dispatched' = <<>>
  /\ destructed' = <<>>
  /\ UNCHANGED <<m_target, m_context, aborted>>

\* the tail of every draw call: request->request_data = data;
\* m_requests.push_back(request), with request and data fresh in the obstack
Enqueue(request, data) ==
  LET req_ptr  == Len(m_obst) + 1
      data_ptr == Len(m_obst) + 2
  IN  /\ m_obst' = Alloc(Alloc(m_obst, [request EXCEPT !.request_data = data_ptr]), data)
      /\ m_requests' = Append(m_requests, req_ptr)
      /\ NoCalls
      /\ UNCHANGED <<m_target, m_context, aborted>>

\* an assert placed behind the construction of the request
AssertFailsAfterNew ==
  /\ aborted' = TRUE
  /\ m_obst' = Alloc(m_obst, NewDrawingRequest)
  /\ dispatched' = <<>>
  /\ destructed' = <<>>
  /\ UNCHANGED <<m_target, m_context, m_requests>>

\* assert(cond) failing: the process aborts where it stands
AssertFails ==
  /\ aborted' = TRUE
  /\ NoCalls
  /\ UNCHANGED <<m_target, m_context, m_obst, m_requests>>

\* the test with >= and <= where the code has > and <
CulledInclusive(cliprect, surface, position) ==
  \/ position.x >= get_right(cliprect)
  \/ position.y >= get_bottom(cliprect)
  \/ position.x + surface.width <= get_left(cliprect)
  \/ position.y + surface.height <= get_top(cliprect)

\* the test "discard clipped surface" of draw_surface
Culled(cliprect, surface, position) ==
  \/ position.x > get_right(cliprect)
  \/ position.y > get_bottom(cliprect)
  \/ position.x + surface.width < get_left(cliprect)
  \/ position.y + surface.height < get_top(cliprect)

\* Canvas::draw_surface(surface, position, angle, color, blend, layer)
draw_surface(surface, position, angle, color, blend, layer) ==
  IF surface = NULL THEN AssertFails
  ELSE IF Culled(m_context.cliprect, Deref(surface), position)
  THEN \* the request is constructed before the test and left in the obstack
       /\ m_obst' = Alloc(m_obst, NewDrawingRequest)
       /\ NoCalls
       /\ UNCHANGED <<m_target, m_context, m_requests, aborted>>
  ELSE Enqueue([NewDrawingRequest EXCEPT
                  !.type = "TEXTURE",
                  !.layer = layer,
                  !.drawing_effect = SurfaceEffect(m_context, Deref(surface)),
                  !.alpha = m_context.transform.alpha,
                  !.angle = angle,
                  !.color = color,
                  !.blend = blend],
               [kind |-> "TextureRequest", dtor |-> 0,
                srcrect |-> Rectf(0, 0, Deref(surface).width, Deref(surface).height),
                dstrect |-> RectfPS(apply_translate(position),
                                    Vector(Deref(surface).width, Deref(surface).height)),
                texture |-> Deref(surface).texture])

\* Canvas::draw_surface(surface, position, layer)
draw_surface_3(surface, position, layer) ==
  draw_surface(surface, position, 0, White, DefaultBlend, layer)

\* Canvas::draw_surface_part(surface, srcrect, dstrect, layer)
draw_surface_part(surface, srcrect, dstrect, layer) ==
  IF surface = NULL THEN AssertFails
  ELSE Enqueue([NewDrawingRequest EXCEPT
                  !.type = "TEXTURE",
                  !.layer = layer,
                  !.drawing_effect = SurfaceEffect(m_context, Deref(surface)),
                  !.alpha = m_context.transform.alpha],
               [kind |-> "TextureRequest", dtor |-> 0,
                srcrect |-> RectfPS(apply_translate(dstrect.p1), get_size(srcrect)),
                dstrect |-> dstrect,
                texture |-> Deref(surface).texture])

\* Canvas::draw_text(font, text, position, alignment, layer, color)
draw_text(font, text, position, alignment, layer, color) ==
  Enqueue([NewDrawingRequest EXCEPT
             !.type = "TEXT",
             !.layer = layer,
             !.drawing_effect = m_context.transform.drawing_effect,
             !.alpha = m_context.transform.alpha,
             !.color = color],
          [kind |-> "TextRequest", dtor |-> 0,
           pos |-> apply_translate(position),
           font |-> font,
           text |-> text,
           alignment |-> alignment])

\* Canvas::draw_center_text(font, text, position, layer, color)
draw_center_text(font, text, position, layer, color) ==
  draw_text(font, text,
            Vector(position.x + m_context.width \div 2, position.y),
            "ALIGN_CENTER", layer, color)

\* Canvas::draw_gradient(top, bottom, layer, direction, region)
draw_gradient(top, bottom, layer, direction, region) ==
  Enqueue([NewDrawingRequest EXCEPT
             !.type = "GRADIENT",
             !.layer = layer,
             !.drawing_effect = m_context.transform.drawing_effect,
             !.alpha = m_context.transform.alpha],
          [kind |-> "GradientRequest", dtor |-> 0,
           top |-> top,
           bottom |-> bottom,
           direction |-> direction,
           region |-> region])

\* the alpha of the colour left as given
PayloadAlphaUnscaled(ctx, color) == color.alpha

\* color.alpha * m_context.transform().alpha
PayloadAlpha(ctx, color) == FMul(color.alpha, ctx.transform.alpha)

\* the fields every filled-shape call sets in its DrawingRequest
ShapeRequest(type, layer) ==
  [NewDrawingRequest EXCEPT
     !.type = type,
     !.layer = layer,
     !.drawing_effect = m_context.transform.drawing_effect,
     !.alpha = m_context.transform.alpha]

\* the overload storing the colour as given, its alpha not multiplied
draw_filled_rect_v_unscaled(topleft, size, color, layer) ==
  Enqueue(ShapeRequest("FILLRECT", layer),
          [kind |-> "FillRectRequest", dtor |-> 0,
           pos |-> apply_translate(topleft),
           size |-> size,
           color |-> color,
           radius |-> 0])

\* Canvas::draw_filled_rect(topleft, size, color, layer)
draw_filled_rect_v(topleft, size, color, layer) ==
  Enqueue(ShapeRequest("FILLRECT", layer),
          [kind |-> "FillRectRequest", dtor |-> 0,
           pos |-> apply_translate(topleft),
           size |-> size,
           color |-> [color EXCEPT !.alpha = PayloadAlpha(m_context, color)],
           radius |-> 0])

\* Canvas::draw_filled_rect(rect, color, radius, layer)
draw_filled_rect(rect, color, radius, layer) ==
  Enqueue(ShapeRequest("FILLRECT", layer),
          [kind |-> "FillRectRequest", dtor |-> 0,
           pos |-> apply_translate(rect.p1),
           size |-> Vector(get_width(rect), get_height(rect)),
           color |-> [color EXCEPT !.alpha = PayloadAlpha(m_context, color)],
           radius |-> radius])

\* Canvas::draw_filled_rect(rect, color, layer)
draw_filled_rect_3(rect, color, layer) ==
  draw_filled_rect(rect, color, 0, layer)

\* Canvas::draw_inverse_ellipse(pos, size, color, layer)
draw_inverse_ellipse(pos, size, color, layer) ==
  Enqueue(ShapeRequest("INVERSEELLIPSE", layer),
          [kind |-> "InverseEllipseRequest", dtor |-> 0,
           pos |-> apply_translate(pos),
           color |-> [color EXCEPT !.alpha = PayloadAlpha(m_context, color)],
           size |-> size])

\* Canvas::draw_line(pos1, pos2, color, layer)
draw_line(pos1, pos2, color, layer) ==
  Enqueue(ShapeRequest("LINE", layer),
          [kind |-> "LineRequest", dtor |-> 0,
           pos |-> apply_translate(pos1),
           color |-> [color EXCEPT !.alpha = PayloadAlpha(m_context, color)],
           dest_pos |-> apply_translate(pos2)])

\* Canvas::draw_triangle(pos1, pos2, pos3, color, layer)
draw_triangle(pos1, pos2, pos3, color, layer) ==
  Enqueue(ShapeRequest("TRIANGLE", layer),
          [kind |-> "TriangleRequest", dtor |-> 0,
           pos1 |-> apply_translate(pos1),
           pos2 |-> apply_translate(pos2),
           pos3 |-> apply_translate(pos3),
           color |-> [color EXCEPT !.alpha = PayloadAlpha(m_context, color)]])

----------------------------------------------------------------------------
(* Canvas::clear *)

\* p->~T(): the object at p is destructed once more; its bytes stay in the
\* obstack until the obstack is freed
Destruct(obst, p) == [obst EXCEPT ![p].dtor = @ + 1]

RECURSIVE DestructAll(_, _)
DestructAll(obst, calls) ==
  IF calls = <<>> THEN obst
  ELSE DestructAll(Destruct(obst, Head(calls)), Tail(calls))

\* one pass of the loop without the destructor call of the payload
RequestDestructorsNoData(obst, request) == <<request>>

\* the destructor calls of one pass of the loop of clear over request
RequestDestructors(obst, request) ==
  (IF obst[request].request_data # NULL
   THEN <<obst[request].request_data>> ELSE <<>>) \o <<request>>

\* the destructor calls of the loop of clear, in order
RECURSIVE ClearDestructors(_, _)
ClearDestructors(obst, requests) ==
  IF requests = <<>> THEN <<>>
  ELSE RequestDestructors(obst, Head(requests))
         \o ClearDestructors(obst, Tail(requests))

\* clear without its last statement, m_requests.clear()
clear_keeping_requests ==
  LET calls == ClearDestructors(m_obst, m_requests)
  IN  /\ m_obst' = DestructAll(m_obst, calls)
      /\ destructed' = calls
      /\ dispatched' = <<>>
      /\ UNCHANGED <<m_target, m_context, m_requests, aborted>>

\* Canvas::clear()
clear ==
  LET calls == ClearDestructors(m_obst, m_requests)
  IN  /\ m_obst' = DestructAll(m_obst, calls)
      /\ destructed' = calls
      /\ m_requests' = <<>>
      /\ dispatched' = <<>>
      /\ UNCHANGED <<m_target, m_context, aborted>>

----------------------------------------------------------------------------
(* Canvas::render *)

\* a comparator with <= where the code has <
LessOrEqual(obst, r1, r2) == obst[r1].layer <= obst[r2].layer

\* the comparator of the sort: r1->layer < r2->layer
Less(obst, r1, r2) == obst[r1].layer < obst[r2].layer

\* one request put into a sorted sequence before the requests of its layer
RECURSIVE InsertUnstable(_, _, _)
InsertUnstable(obst, sorted, r) ==
  IF sorted = <<>> THEN <<r>>
  ELSE IF Less(obst, Head(sorted), r)
       THEN <<Head(sorted)>> \o InsertUnstable(obst, Tail(sorted), r)
       ELSE <<r>> \o sorted

\* one request put into a sorted sequence: std::stable_sort leaves it behind
\* every request that does not compare greater than it
RECURSIVE Insert(_, _, _)
Insert(obst, sorted, r) ==
  IF sorted = <<>> THEN <<r>>
  ELSE IF Less(obst, r, Head(sorted))
       THEN <<r>> \o sorted
       ELSE <<Head(sorted)>> \o Insert(obst, Tail(sorted), r)

RECURSIVE SortInto(_, _, _)
SortInto(obst, sorted, rest) ==
  IF rest = <<>> THEN sorted
  ELSE SortInto(obst, Insert(obst, sorted, Head(rest)), Tail(rest))

\* the buffer left in the order of insertion
Unsorted(obst, requests) == requests

\* std::stable_sort(m_requests.begin(), m_requests.end(), by layer)
StableSort(obst, requests) == SortInto(obst, <<>>, requests)

Filters == {"NONE", "BELOW_LIGHTMAP", "ABOVE_LIGHTMAP"}

\* the two tests with > and < where the code has >= and <=
SkippedStrict(filter, layer) ==
  \/ filter = "BELOW_LIGHTMAP" /\ layer > LAYER_LIGHTMAP
  \/ filter = "ABOVE_LIGHTMAP" /\ layer < LAYER_LIGHTMAP

\* the two "continue" tests of the loop
Skipped(filter, layer) ==
  \/ filter = "BELOW_LIGHTMAP" /\ layer >= LAYER_LIGHTMAP
  \/ filter = "ABOVE_LIGHTMAP" /\ layer <= LAYER_LIGHTMAP

\* the painter of the renderer whatever the target
RendererPainter(target) == "renderer.get_painter()"

\* the painter render draws with
Painter(target) ==
  IF target = "LIGHTMAP" THEN "lightmap.get_painter()" ELSE "renderer.get_painter()"

PainterMethod(type) ==
  CASE type = "TEXTURE"        -> "draw_texture"
    [] type = "GRADIENT"       -> "draw_gradient"
    [] type = "FILLRECT"       -> "draw_filled_rect"
    [] type = "INVERSEELLIPSE" -> "draw_inverse_ellipse"
    [] type = "LINE"           -> "draw_line"
    [] type = "TRIANGLE"       -> "draw_triangle"

\* the backend calls of the switch for one request
Dispatch(obst, target, r) ==
  LET request == obst[r]
  IN  IF request.type \in {"TEXTURE", "GRADIENT", "FILLRECT", "INVERSEELLIPSE",
                           "LINE", "TRIANGLE"}
      THEN <<[receiver |-> Painter(target),
              method |-> PainterMethod(request.type),
              request |-> r]>>
      ELSE IF request.type = "TEXT"
      THEN LET textrequest == obst[request.request_data]
           IN  <<[receiver |-> textrequest.font,
                  method |-> "draw",
                  painter |-> Painter(target),
                  text |-> textrequest.text,
                  pos |-> textrequest.pos,
                  alignment |-> textrequest.alignment,
                  drawing_effect |-> request.drawing_effect,
                  color |-> request.color,
                  alpha |-> request.alpha,
                  request |-> r]>>
      ELSE IF request.type = "GETLIGHT"
      THEN <<[receiver |-> "lightmap", method |-> "get_light", request |-> r]>>
      ELSE <<>>

\* the backend calls of the loop over the sorted requests
RECURSIVE DispatchAll(_, _, _, _)
DispatchAll(obst, target, filter, requests) ==
  IF requests = <<>> THEN <<>>
  ELSE (IF Skipped(filter, obst[Head(requests)].layer)
        THEN <<>> ELSE Dispatch(obst, target, Head(requests)))
         \o DispatchAll(obst, target, filter, Tail(requests))

\* render erasing from m_requests the requests its filter skips
render_erasing_skipped(filter) ==
  LET sorted == StableSort(m_obst, m_requests)
  IN  /\ m_requests' = SelectSeq(sorted, LAMBDA r : ~Skipped(filter, m_obst[r].layer))
      /\ dispatched' = DispatchAll(m_obst, m_target, filter, sorted)
      /\ destructed' = <<>>
      /\ UNCHANGED <<m_target, m_context, m_obst, aborted>>

\* Canvas::render(video_system, filter): the sort is in place, the loop reads
render(filter) ==
  LET sorted == StableSort(m_obst, m_requests)
  IN  /\ m_requests' = sorted
      /\ dispatched' = DispatchAll(m_obst, m_target, filter, sorted)
      /\ destructed' = <<>>
      /\ UNCHANGED <<m_target, m_context, m_obst, aborted>>

----------------------------------------------------------------------------
(* The owner of the obstack frees it between two frames, after clear. *)

obstack_free ==
  /\ m_requests = <<>>
  /\ m_obst # <<>>
  /\ m_obst' = <<>>
  /\ NoCalls
  /\ UNCHANGED <<m_target, m_context, m_requests, aborted>>

----------------------------------------------------------------------------
(* The states the canvas starts in and the calls made on it. *)

Targets == {"NORMAL", "LIGHTMAP"}

\* a DrawingContext: clip rectangle, transform, viewport and width
Context(translation, viewport, effect, alpha) ==
  [cliprect  |-> Rectf(0, 0, 4, 3),
   transform |-> [translation |-> translation, drawing_effect |-> effect, alpha |-> alpha],
   viewport  |-> viewport,
   width     |-> 6]

Viewport(left, top) == [left |-> left, top |-> top]

\* the contexts of the draw-call specification
Contexts ==
  { Context(tr, vp, e, a) :
      tr \in {Vector(0, 0), Vector(1, 3)},
      vp \in {Viewport(0, 0), Viewport(2, 1)},
      e  \in {NO_EFFECT, HORIZONTAL_FLIP, HORIZONTAL_FLIP \cup VERTICAL_FLIP},
      a  \in {2, 4} }

\* the context of the pipeline specification
PipelineContexts ==
  { Context(Vector(1, 3), Viewport(2, 1), VERTICAL_FLIP, 2) }

Layers == {LAYER_LIGHTMAP - 2, LAYER_LIGHTMAP - 1, LAYER_LIGHTMAP, LAYER_LIGHTMAP + 1}

Red(alpha) == Color("red", alpha)

\* what the calls of the pipeline specification are made with: every layer
\* for surfaces, filled rects and lines, one layer above the lightmap for
\* texts, gradients, ellipses and triangles, one value of everything else
PipelineInputs ==
  [room       |-> 2 * MaxRequests,
   layers     |-> Layers,
   layers_top |-> {LAYER_LIGHTMAP + 1},
   surfaces   |-> {2},
   positions  |-> {Vector(1, 1)},
   points     |-> {Vector(1, 2)},
   sizes      |-> {Vector(2, 1)},
   rects      |-> {Rectf(1, 2, 3, 3)},
   colors     |-> {Red(2)},
   tints      |-> {White},
   radii      |-> {0},
   angles     |-> {0},
   blends     |-> {DefaultBlend},
   texts      |-> {"hello"}]

\* what the calls of the draw-call specification are made with: one layer,
\* every case of everything else; the last rectangle lies outside the clip
\* rectangle of every context, translated or not
DrawInputs ==
  [room       |-> MaxObjects,
   layers     |-> {LAYER_LIGHTMAP},
   layers_top |-> {LAYER_LIGHTMAP},
   surfaces   |-> {NULL} \cup DOMAIN Surfaces,
   positions  |-> { Vector(x, 1) : x \in {-3, -2, 1, 4, 5} }
                    \cup { Vector(1, y) : y \in {-2, -1, 1, 3, 4} }
                    \cup { Vector(-2, -1), Vector(4, 3), Vector(-3, -2), Vector(5, 4) },
   points     |-> {Vector(0, 0), Vector(1, 2)},
   sizes      |-> {Vector(2, 1)},
   rects      |-> {Rectf(0, 0, 2, 1), Rectf(1, 2, 3, 5), Rectf(9, 8, 11, 9)},
   colors     |-> {Red(0), Red(2), White},
   tints      |-> {Red(2), White},
   radii      |-> {0, 2},
   angles     |-> {0, 90},
   blends     |-> {DefaultBlend, "Blend(GL_ONE, GL_ONE)"},
   texts      |-> {"hello"}]

InitWith(targets, contexts) ==
  /\ m_target \in targets
  /\ m_context \in contexts
  /\ m_obst = <<>>
  /\ m_requests = <<>>
  /\ aborted = FALSE
  /\ op = [name |-> "Canvas"]
  /\ dispatched = <<>>
  /\ destructed = <<>>

\* a call c is made on the running program
Call(c) ==
  /\ ~aborted
  /\ op' = c

\* a frame draws into an obstack that holds no destructed object (the owner
\* frees the obstack after clear, before the next frame draws) and that has
\* room for one more request and its payload
Room(I) ==
  /\ \A p \in 1..Len(m_obst) : m_obst[p].dtor = 0
  /\ Len(m_obst) + 2 <= I.room

DrawSurface(I) ==
  /\ Room(I)
  /\ \E surface \in I.surfaces, position \in I.positions, angle \in I.angles,
        color \in I.tints, blend \in I.blends, layer \in I.layers :
       /\ Call([name |-> "draw_surface", surface |-> surface, position |-> position,
                angle |-> angle, color |-> color, blend |-> blend, layer |-> layer])
       /\ draw_surface(surface, position, angle, color, blend, layer)

DrawSurface3(I) ==
  /\ Room(I)
  /\ \E surface \in I.surfaces, position \in I.positions, layer \in I.layers :
       /\ Call([name |-> "draw_surface/3", surface |-> surface,
                position |-> position, layer |-> layer])
       /\ draw_surface_3(surface, position, layer)

DrawSurfacePart(I) ==
  /\ Room(I)
  /\ \E surface \in I.surfaces, srcrect \in I.rects, dstrect \in I.rects,
        layer \in I.layers :
       /\ Call([name |-> "draw_surface_part", surface |-> surface,
                srcrect |-> srcrect, dstrect |-> dstrect, layer |-> layer])
       /\ draw_surface_part(surface, srcrect, dstrect, layer)

DrawText(I) ==
  /\ Room(I)
  /\ \E text \in I.texts, position \in I.points,
        alignment \in {"ALIGN_LEFT"}, layer \in I.layers_top, color \in I.colors :
       /\ Call([name |-> "draw_text", font |-> "font", text |-> text,
                position |-> position, alignment |-> alignment,
                layer |-> layer, color |-> color])
       /\ draw_text("font", text, position, alignment, layer, color)

DrawCenterText(I) ==
  /\ Room(I)
  /\ \E text \in I.texts, position \in I.points, layer \in I.layers,
        color \in I.colors :
       /\ Call([name |-> "draw_center_text", font |-> "font", text |-> text,
                position |-> position, layer |-> layer, color |-> color])
       /\ draw_center_text("font", text, position, layer, color)

DrawGradient(I) ==
  /\ Room(I)
  /\ \E top \in I.colors, direction \in {"VERTICAL"}, region \in I.rects,
        layer \in I.layers_top :
       /\ Call([name |-> "draw_gradient", top |-> top, bottom |-> White,
                layer |-> layer, direction |-> direction, region |-> region])
       /\ draw_gradient(top, White, layer, direction, region)

DrawFilledRectV(I) ==
  /\ Room(I)
  /\ \E topleft \in I.points, size \in I.sizes, color \in I.colors,
        layer \in I.layers :
       /\ Call([name |-> "draw_filled_rect/v", topleft |-> topleft, size |-> size,
                color |-> color, layer |-> layer])
       /\ draw_filled_rect_v(topleft, size, color, layer)

DrawFilledRect3(I) ==
  /\ Room(I)
  /\ \E rect \in I.rects, color \in I.colors, layer \in I.layers :
       /\ Call([name |-> "draw_filled_rect/3", rect |-> rect, color |-> color,
                layer |-> layer])
       /\ draw_filled_rect_3(rect, color, layer)

DrawFilledRect(I) ==
  /\ Room(I)
  /\ \E rect \in I.rects, color \in I.colors, radius \in I.radii,
        layer \in I.layers :
       /\ Call([name |-> "draw_filled_rect", rect |-> rect, color |-> color,
                radius |-> radius, layer |-> layer])
       /\ draw_filled_rect(rect, color, radius, layer)

DrawInverseEllipse(I) ==
  /\ Room(I)
  /\ \E pos \in I.points, size \in I.sizes, color \in I.colors,
        layer \in I.layers_top :
       /\ Call([name |-> "draw_inverse_ellipse", pos |-> pos, size |-> size,
                color |-> color, layer |-> layer])
       /\ draw_inverse_ellipse(pos, size, color, layer)

DrawLine(I) ==
  /\ Room(I)
  /\ \E pos1 \in I.points, pos2 \in I.points, color \in I.colors,
        layer \in I.layers :
       /\ Call([name |-> "draw_line", pos1 |-> pos1, pos2 |-> pos2,
                color |-> color, layer |-> layer])
       /\ draw_line(pos1, pos2, color, layer)

DrawTriangle(I) ==
  /\ Room(I)
  /\ \E pos1 \in I.points, pos2 \in I.points, pos3 \in I.points,
        color \in I.colors, layer \in I.layers_top :
       /\ Call([name |-> "draw_triangle", pos1 |-> pos1, pos2 |-> pos2,
                pos3 |-> pos3, color |-> color, layer |-> layer])
       /\ draw_triangle(pos1, pos2, pos3, color, layer)

\* the record of a render call keeps, beside the filter, the buffer the call
\* found: a buffer out of enqueue order was sorted by an earlier render
Render ==
  \E filter \in Filters :
    /\ Call([name |-> "render", filter |-> filter, before |-> m_requests])
    /\ render(filter)

Clear ==
  /\ Call([name |-> "clear"])
  /\ clear

ObstackFree ==
  /\ Call([name |-> "obstack_free"])
  /\ obstack_free

\* the pipeline: frames of up to MaxRequests requests, one call for each
\* request type, at every layer
Init == InitWith({"NORMAL"}, PipelineContexts)

Next ==
  \/ DrawSurface3(PipelineInputs)
  \/ DrawText(PipelineInputs)
  \/ DrawGradient(PipelineInputs)
  \/ DrawFilledRect3(PipelineInputs)
  \/ DrawInverseEllipse(PipelineInputs)
  \/ DrawLine(PipelineInputs)
  \/ DrawTriangle(PipelineInputs)
  \/ Render
  \/ Clear
  \/ ObstackFree

Spec == Init /\ [][Next]_vars

\* the draw calls: every call, every argument case, in every context
InitDraw == InitWith(Targets, Contexts)

NextDraw ==
  \/ DrawSurface(DrawInputs)
  \/ DrawSurface3(DrawInputs)
  \/ DrawSurfacePart(DrawInputs)
  \/ DrawText(DrawInputs)
  \/ DrawCenterText(DrawInputs)
  \/ DrawGradient(DrawInputs)
  \/ DrawFilledRectV(DrawInputs)
  \/ DrawFilledRect3(DrawInputs)
  \/ DrawFilledRect(DrawInputs)
  \/ DrawInverseEllipse(DrawInputs)
  \/ DrawLine(DrawInputs)
  \/ DrawTriangle(DrawInputs)
  \/ Render
  \/ Clear
  \/ ObstackFree

SpecDraw == InitDraw /\ [][NextDraw]_vars

\* what the calls of the target specification are made with: the inputs of
\* the pipeline, one layer below and one above the lightmap, and surfaces
\* that may be null
TargetInputs ==
  [PipelineInputs EXCEPT !.layers = {LAYER_LIGHTMAP - 1, LAYER_LIGHTMAP + 1},
                         !.surfaces = {NULL, 2}]

\* the pipeline of a canvas of either target, with every call taking a surface
InitTargets == InitWith(Targets, PipelineContexts)

NextTargets ==
  \/ DrawSurface(TargetInputs)
  \/ DrawSurface3(TargetInputs)
  \/ DrawSurfacePart(TargetInputs)
  \/ DrawText(TargetInputs)
  \/ DrawGradient(TargetInputs)
  \/ DrawFilledRect3(TargetInputs)
  \/ DrawInverseEllipse(TargetInputs)
  \/ DrawLine(TargetInputs)
  \/ DrawTriangle(TargetInputs)
  \/ Render
  \/ Clear
  \/ ObstackFree

SpecTargets == InitTargets /\ [][NextTargets]_vars

----------------------------------------------------------------------------
(* What the claims speak of. *)

\* the requests one render call dispatched, in the order of the dispatch
DispatchedRequests == [i \in 1..Len(dispatched) |-> dispatched[i].request]

DispatchedLayers == [i \in 1..Len(dispatched) |-> m_obst[dispatched[i].request].layer]

\* the obstack hands out rising addresses within a frame, so of two buffered
\* requests the one enqueued first is the one with the lower address
EnqueuedBefore(r1, r2) == r1 < r2

\* how often r occurs in the sequence s
Count(s, r) == Cardinality({i \in 1..Len(s) : s[i] = r})

\* the step is a call that appended one request to the buffer
Enqueued == m_requests' = Append(m_requests, Len(m_obst) + 1)

\* the request a call has just appended, and its payload
NewRequest == m_obst'[m_requests'[Len(m_requests')]]

NewData == m_obst'[NewRequest.request_data]

\* the request and payload at the tail of the buffer
LastRequest == m_obst[m_requests[Len(m_requests)]]

LastData == m_obst[LastRequest.request_data]

----------------------------------------------------------------------------
\* C1: whenever render has run, any two requests of the same layer were
\* dispatched in the order in which they were enqueued.
C1_SameLayerKeepsEnqueueOrder ==
  op.name = "render" =>
    \A i, j \in 1..Len(dispatched) :
      (i < j /\ DispatchedLayers[i] = DispatchedLayers[j])
        => EnqueuedBefore(DispatchedRequests[i], DispatchedRequests[j])

\* the scenario of the specification: a filled rect, then a texture at a lower
\* layer, then a line at the rect's layer, dispatched as texture, rect, line
C1_Witness ==
  /\ op.name = "render"
  /\ op.filter = "NONE"
  /\ DispatchedRequests = <<3, 1, 5>>
  /\ [i \in 1..3 |-> dispatched[i].method]
       = <<"draw_texture", "draw_filled_rect", "draw_line">>
  /\ DispatchedLayers[1] < DispatchedLayers[2]
  /\ DispatchedLayers[2] = DispatchedLayers[3]

\* C2: whenever render has run, with any filter, the requests it dispatched
\* are in non-decreasing order of layer.
C2_DispatchNonDecreasing ==
  op.name = "render" =>
    \A i \in 1..Len(dispatched) - 1 : DispatchedLayers[i] <= DispatchedLayers[i + 1]

\* a filtered render that dispatched, lowest layer first, two requests that
\* had been enqueued highest layer first
C2_Witness ==
  /\ op.name = "render"
  /\ op.filter # "NONE"
  /\ Len(dispatched) = 2
  /\ DispatchedLayers[1] < DispatchedLayers[2]
  /\ EnqueuedBefore(DispatchedRequests[2], DispatchedRequests[1])

\* C3: whenever render has run, it has dispatched no request twice and has
\* dispatched exactly the buffered requests its filter lets through: all of
\* them without filter, those of layer < LAYER_LIGHTMAP under BELOW_LIGHTMAP,
\* those of layer > LAYER_LIGHTMAP under ABOVE_LIGHTMAP.
C3_FilterPartition ==
  op.name = "render" =>
    /\ \A i, j \in 1..Len(dispatched) :
         DispatchedRequests[i] = DispatchedRequests[j] => i = j
    /\ \A k \in 1..Len(m_requests) :
         LET r == m_requests[k]
             layer == m_obst[r].layer
         IN  (\E i \in 1..Len(dispatched) : DispatchedRequests[i] = r)
               <=> CASE op.filter = "NONE"           -> TRUE
                     [] op.filter = "BELOW_LIGHTMAP" -> layer < LAYER_LIGHTMAP
                     [] op.filter = "ABOVE_LIGHTMAP" -> layer > LAYER_LIGHTMAP
    /\ \A i \in 1..Len(dispatched) :
         \E k \in 1..Len(m_requests) : m_requests[k] = DispatchedRequests[i]

\* a filtered render over a request below, one at and one above
\* LAYER_LIGHTMAP, which dispatched only one of the three
C3_Witness ==
  /\ op.name = "render"
  /\ op.filter = "ABOVE_LIGHTMAP"
  /\ {m_obst[m_requests[k]].layer : k \in 1..Len(m_requests)}
       = {LAYER_LIGHTMAP - 1, LAYER_LIGHTMAP, LAYER_LIGHTMAP + 1}
  /\ Len(m_requests) = 3
  /\ Len(dispatched) = 1
  /\ DispatchedLayers[1] = LAYER_LIGHTMAP + 1

\* C4: a draw_surface call with a surface enqueues nothing when the rectangle
\* of the surface at position lies to the left of, to the right of, above or
\* below the clip rectangle without touching it, and enqueues exactly one
\* TEXTURE request otherwise.
C4_CullsExactlyOutside ==
  [][ (op'.name \in {"draw_surface", "draw_surface/3"} /\ op'.surface # NULL) =>
        LET clip == m_context.cliprect
            x == op'.position.x
            y == op'.position.y
            w == Deref(op'.surface).width
            h == Deref(op'.surface).height
            outside == \/ x + w < clip.p1.x
                       \/ clip.p2.x < x
                       \/ y + h < clip.p1.y
                       \/ clip.p2.y < y
        IN  IF outside THEN m_requests' = m_requests
            ELSE Enqueued /\ NewRequest.type = "TEXTURE" ]_vars

\* a surface whose right edge lies on the left edge of the clip rectangle
\* has been enqueued
C4_Witness ==
  /\ op.name = "draw_surface"
  /\ op.surface # NULL
  /\ op.position.x + Deref(op.surface).width = m_context.cliprect.p1.x
  /\ Len(m_requests) = 1
  /\ LastRequest.type = "TEXTURE"

\* C5: clear runs, for each request of the buffer in turn, the destructor of
\* its payload and then the destructor of the request, each once, and leaves
\* the buffer empty and every other object of the obstack as it was.
C5_ClearDestructsEachOnce ==
  [][ op'.name = "clear" =>
        /\ m_requests' = <<>>
        /\ Len(destructed') = 2 * Len(m_requests)
        /\ \A k \in 1..Len(m_requests) :
             /\ m_obst[m_requests[k]].request_data # NULL
             /\ destructed'[2 * k - 1] = m_obst[m_requests[k]].request_data
             /\ destructed'[2 * k] = m_requests[k]
        /\ \A p \in 1..Len(m_obst) :
             IF \E i \in 1..Len(destructed') : destructed'[i] = p
             THEN m_obst[p].dtor = 0 /\ m_obst'[p].dtor = 1
                    /\ Count(destructed', p) = 1
             ELSE m_obst'[p] = m_obst[p] ]_vars

\* clear has destructed a buffer of at least two requests
C5_Witness ==
  /\ op.name = "clear"
  /\ Len(destructed) >= 4
  /\ m_requests = <<>>
  /\ \A p \in 1..Len(m_obst) : m_obst[p].dtor = 1

\* C6: a clear that follows a clear, and any clear of an empty buffer,
\* destructs nothing and leaves obstack and buffer as they were.
C6_ClearIdempotent ==
  [][ (op'.name = "clear" /\ (op.name = "clear" \/ m_requests = <<>>)) =>
        /\ destructed' = <<>>
        /\ m_obst' = m_obst
        /\ m_requests' = m_requests
        /\ m_requests' = <<>> ]_vars

\* the second of two clears in a row, the first of which destructed requests
C6_Witness ==
  /\ op.name = "clear"
  /\ destructed = <<>>
  /\ m_requests = <<>>
  /\ \E p \in 1..Len(m_obst) : m_obst[p].dtor = 1

\* C7: render leaves every object of the obstack as it was and leaves in the
\* buffer exactly the requests that were in it, each as often as before.
C7_RenderKeepsRequests ==
  [][ op'.name = "render" =>
        /\ m_obst' = m_obst
        /\ Len(m_requests') = Len(m_requests)
        /\ \A r \in 1..Len(m_obst) :
             Count(m_requests', r) = Count(m_requests, r) ]_vars

\* a filtered render has skipped requests, and they are still in the buffer
C7_Witness ==
  /\ op.name = "render"
  /\ op.filter = "BELOW_LIGHTMAP"
  /\ Len(m_requests) = 3
  /\ Len(dispatched) = 1
  /\ \A k \in 1..Len(m_requests) : m_obst[m_requests[k]].dtor = 0

\* the position a call stored in the payload of the request it enqueued is
\* apply_translate of the position it was given
PositionTranslated(stored, given) == stored = apply_translate(given)

\* C8: every draw call stores, for each position it is given, apply_translate
\* of that position in the payload of the request it enqueues.
C8_PositionsTranslatedOnce ==
  [][ Enqueued =>
        CASE op'.name \in {"draw_surface", "draw_surface/3"} ->
               PositionTranslated(NewData.dstrect.p1, op'.position)
          [] op'.name = "draw_surface_part" ->
               PositionTranslated(NewData.dstrect.p1, op'.dstrect.p1)
          [] op'.name = "draw_text" ->
               PositionTranslated(NewData.pos, op'.position)
          [] op'.name = "draw_gradient" ->
               PositionTranslated(NewData.region.p1, op'.region.p1)
          [] op'.name = "draw_filled_rect/v" ->
               PositionTranslated(NewData.pos, op'.topleft)
          [] op'.name \in {"draw_filled_rect", "draw_filled_rect/3"} ->
               PositionTranslated(NewData.pos, op'.rect.p1)
          [] op'.name = "draw_inverse_ellipse" ->
               PositionTranslated(NewData.pos, op'.pos)
          [] op'.name = "draw_line" ->
               /\ PositionTranslated(NewData.pos, op'.pos1)
               /\ PositionTranslated(NewData.dest_pos, op'.pos2)
          [] op'.name = "draw_triangle" ->
               /\ PositionTranslated(NewData.pos1, op'.pos1)
               /\ PositionTranslated(NewData.pos2, op'.pos2)
               /\ PositionTranslated(NewData.pos3, op'.pos3)
          [] OTHER -> TRUE ]_vars

\* the draw calls that fill a shape with a colour they are given
FilledShapeCalls ==
  {"draw_filled_rect/v", "draw_filled_rect/3", "draw_filled_rect",
   "draw_inverse_ellipse", "draw_line", "draw_triangle"}

\* C9, as claimed: the alpha of the request a filled-shape call enqueues is
\* the alpha of the context times the alpha of the colour given.
C9_RequestAlphaIsProduct ==
  [][ (Enqueued /\ op'.name \in FilledShapeCalls) =>
        NewRequest.alpha = FMul(m_context.transform.alpha, op'.color.alpha) ]_vars

\* C9, as amended: the alpha of the colour in the payload of the request a
\* filled-shape call enqueues is the alpha of the context times the alpha of
\* the colour given; the alpha of the request itself is that of the context.
C9_PayloadAlphaIsProduct ==
  [][ (Enqueued /\ op'.name \in FilledShapeCalls) =>
        /\ NewData.color.alpha = FMul(m_context.transform.alpha, op'.color.alpha)
        /\ NewData.color.rgb = op'.color.rgb
        /\ NewRequest.alpha = m_context.transform.alpha ]_vars

\* a line of a half transparent colour drawn in a half transparent context
C9_Witness ==
  /\ op.name = "draw_line"
  /\ op.color.alpha = 2
  /\ m_context.transform.alpha = 2
  /\ Len(m_requests) = 1
  /\ LastData.color.alpha = 1
  /\ LastRequest.alpha = 2

\* C10: the drawing effect of the request draw_surface or draw_surface_part
\* enqueues has HORIZONTAL_FLIP set exactly when one of the context's effect
\* and the surface's flip flag has it, not both, and has every other bit as
\* the context's effect has it.
C10_SurfaceEffectIsXor ==
  [][ (Enqueued /\ op'.name \in {"draw_surface", "draw_surface/3", "draw_surface_part"}) =>
        LET context_effect == m_context.transform.drawing_effect
            flipx == Deref(op'.surface).flipx
        IN  /\ NewRequest.drawing_effect \subseteq HORIZONTAL_FLIP \cup VERTICAL_FLIP
            /\ ("HORIZONTAL_FLIP" \in NewRequest.drawing_effect)
                 <=> (("HORIZONTAL_FLIP" \in context_effect) # flipx)
            /\ ("VERTICAL_FLIP" \in NewRequest.drawing_effect)
                 <=> ("VERTICAL_FLIP" \in context_effect) ]_vars

\* a flipped surface drawn in a flipping context: the flip bit is cleared
C10_Witness ==
  /\ op.name = "draw_surface_part"
  /\ op.surface # NULL
  /\ Deref(op.surface).flipx
  /\ m_context.transform.drawing_effect = HORIZONTAL_FLIP \cup VERTICAL_FLIP
  /\ Len(m_requests) = 1
  /\ LastRequest.drawing_effect = VERTICAL_FLIP

----------------------------------------------------------------------------
\* the request types render has a case for
RequestTypes ==
  {"TEXTURE", "GRADIENT", "TEXT", "FILLRECT", "INVERSEELLIPSE", "LINE",
   "TRIANGLE", "GETLIGHT"}

\* the payload type the case of render for a request type casts request_data to
RequestDataKind(type) ==
  CASE type = "TEXTURE"        -> "TextureRequest"
    [] type = "GRADIENT"       -> "GradientRequest"
    [] type = "TEXT"           -> "TextRequest"
    [] type = "FILLRECT"       -> "FillRectRequest"
    [] type = "INVERSEELLIPSE" -> "InverseEllipseRequest"
    [] type = "LINE"           -> "LineRequest"
    [] type = "TRIANGLE"       -> "TriangleRequest"
    [] type = "GETLIGHT"       -> "GetLightRequest"

\* C11: every request in the buffer is a DrawingRequest whose type is one of
\* the enumeration and whose request_data points at a payload of the variant
\* that belongs to the type; every text render has drawn came from a
\* TextRequest.
C11_PayloadMatchesType ==
  /\ \A k \in 1..Len(m_requests) :
       LET request == m_obst[m_requests[k]]
       IN  /\ request.kind = "DrawingRequest"
           /\ request.type \in RequestTypes
           /\ request.request_data # NULL
           /\ request.request_data \in 1..Len(m_obst)
           /\ m_obst[request.request_data].kind = RequestDataKind(request.type)
  /\ op.name = "render" =>
       \A i \in 1..Len(dispatched) :
         dispatched[i].method = "draw" =>
           /\ m_obst[dispatched[i].request].type = "TEXT"
           /\ m_obst[m_obst[dispatched[i].request].request_data].kind = "TextRequest"

\* render has drawn the text of a buffered TEXT request through its font
C11_Witness ==
  /\ op.name = "render"
  /\ Len(m_requests) = 1
  /\ LastRequest.type = "TEXT"
  /\ LastData.kind = "TextRequest"
  /\ Len(dispatched) = 1
  /\ dispatched[1].method = "draw"
  /\ dispatched[1].receiver = "font"
  /\ dispatched[1].text = LastData.text

\* C12: a draw_surface call that enqueues nothing constructs nothing in the
\* obstack either, and after clear every object constructed in the obstack
\* has been destructed.
C12_CulledDrawConstructsNothing ==
  [][ /\ (op'.name \in {"draw_surface", "draw_surface/3"} /\ m_requests' = m_requests)
           => m_obst' = m_obst
      /\ op'.name = "clear"
           => \A p \in 1..Len(m_obst') : m_obst'[p].dtor >= 1 ]_vars

C14_OnePainterPerTarget ==
  /\ op.name = "render" =>
       \A i \in 1..Len(dispatched) :
         LET call   == dispatched[i]
             chosen == IF m_target = "LIGHTMAP" THEN "lightmap.get_painter()"
                       ELSE "renderer.get_painter()"
         IN  CASE call.method = "get_light" -> call.receiver = "lightmap"
               [] call.method = "draw"      -> call.painter = chosen
               [] OTHER                     -> call.receiver = chosen
  /\ \A target \in Targets :
       LET getlight == [NewDrawingRequest EXCEPT !.type = "GETLIGHT"]
       IN  Dispatch(<<getlight>>, target, 1)
             = <<[receiver |-> "lightmap", method |-> "get_light", request |-> 1]>>

\* a canvas of the lightmap has rendered a text and two shapes, all three
\* with the painter of the lightmap
C14_Witness ==
  /\ op.name = "render"
  /\ m_target = "LIGHTMAP"
  /\ Len(dispatched) = 3
  /\ \E i \in 1..3 : dispatched[i].method = "draw"
  /\ \E i \in 1..3 : dispatched[i].method = "draw_texture"
  /\ \E i \in 1..3 : dispatched[i].method = "draw_triangle"
  /\ \A i \in 1..3 :
       IF dispatched[i].method = "draw"
       THEN dispatched[i].painter = "lightmap.get_painter()"
       ELSE dispatched[i].receiver = "lightmap.get_painter()"

\* the calls that take a surface
SurfaceCalls == {"draw_surface", "draw_surface/3", "draw_surface_part"}

\* C15: a call of draw_surface or draw_surface_part with a null surface
\* aborts the process and leaves obstack and buffer as they were; the abort
\* is that of such a call only, and no call, render or other, runs after it.
C15_NullSurfaceAborts ==
  [][ /\ ~aborted
      /\ (op'.name \in SurfaceCalls /\ op'.surface = NULL) =>
           /\ aborted'
           /\ m_obst' = m_obst
           /\ m_requests' = m_requests
           /\ dispatched' = <<>>
      /\ aborted' => (op'.name \in SurfaceCalls /\ op'.surface = NULL) ]_vars

\* draw_surface_part with a null surface has aborted a canvas that had
\* buffered two requests, and they are all the obstack holds
C15_Witness ==
  /\ aborted
  /\ op.name = "draw_surface_part"
  /\ op.surface = NULL
  /\ Len(m_requests) = 2
  /\ Len(m_obst) = 4

\* the transform of the context applied to pos, moved by the left and top of
\* the viewport
TransformedPlusViewport(pos) ==
  LET applied == TransformApply(m_context.transform, pos)
  IN  [x |-> applied.x + m_context.viewport.left,
       y |-> applied.y + m_context.viewport.top]

\* C16: the position draw_text, draw_inverse_ellipse and draw_line get from
\* apply_translate and store is the transform of the context applied to the
\* position given, plus (viewport.left, viewport.top); the target, the
\* context, the requests buffered before and the objects constructed before
\* are left as they were.
C16_ApplyTranslateComposes ==
  [][ (Enqueued /\ op'.name \in {"draw_text", "draw_inverse_ellipse", "draw_line"}) =>
        /\ CASE op'.name = "draw_text" ->
                  NewData.pos = TransformedPlusViewport(op'.position)
             [] op'.name = "draw_inverse_ellipse" ->
                  NewData.pos = TransformedPlusViewport(op'.pos)
             [] op'.name = "draw_line" ->
                  /\ NewData.pos = TransformedPlusViewport(op'.pos1)
                  /\ NewData.dest_pos = TransformedPlusViewport(op'.pos2)
        /\ m_target' = m_target
        /\ m_context' = m_context
        /\ SubSeq(m_obst', 1, Len(m_obst)) = m_obst
        /\ Len(m_obst') = Len(m_obst) + 2 ]_vars

\* a text drawn at (1, 2) under a transform translating by (1, 3) and a
\* viewport at (2, 1) is stored at (2, 0)
C16_Witness ==
  /\ op.name = "draw_text"
  /\ op.position = Vector(1, 2)
  /\ m_context.transform.translation = Vector(1, 3)
  /\ m_context.viewport = Viewport(2, 1)
  /\ Len(m_requests) = 1
  /\ LastData.pos = Vector(2, 0)

\* C17: the request draw_surface_part enqueues is a TEXTURE request whose
\* payload has the srcrect given, unchanged, and as dstrect the dstrect given
\* moved to apply_translate of its origin, its size kept.
C17_SurfacePartKeepsSrcrect ==
  [][ (op'.name = "draw_surface_part" /\ op'.surface # NULL) =>
        /\ Enqueued
        /\ NewRequest.type = "TEXTURE"
        /\ NewData.srcrect = op'.srcrect
        /\ NewData.dstrect.p1 = apply_translate(op'.dstrect.p1)
        /\ get_size(NewData.dstrect) = get_size(op'.dstrect) ]_vars

\* the draw calls of Canvas
DrawCalls ==
  {"draw_surface", "draw_surface/3", "draw_surface_part", "draw_text",
   "draw_center_text", "draw_gradient", "draw_filled_rect/v",
   "draw_filled_rect/3", "draw_filled_rect", "draw_inverse_ellipse",
   "draw_line", "draw_triangle"}

\* the call c draws a surface whose rectangle at the position given lies
\* beside the clip rectangle
OutsideClip(c) ==
  /\ c.name \in {"draw_surface", "draw_surface/3"}
  /\ c.surface # NULL
  /\ \/ c.position.x + Deref(c.surface).width < m_context.cliprect.p1.x
     \/ m_context.cliprect.p2.x < c.position.x
     \/ c.position.y + Deref(c.surface).height < m_context.cliprect.p1.y
     \/ m_context.cliprect.p2.y < c.position.y

\* the buffer s holds its requests in the order they were enqueued in
InEnqueueOrder(s) ==
  \A i, j \in 1..Len(s) : i < j => EnqueuedBefore(s[i], s[j])

\* C18: a draw call that is not culled (and has not aborted) makes the buffer
\* one request longer; the new request is at the tail and has the layer of
\* the call; the requests buffered before are at the positions they had, and
\* they and all other objects of the obstack are as they were; a buffer in
\* enqueue order stays in enqueue order.
C18_DrawAppendsAtTail ==
  [][ (op'.name \in DrawCalls /\ ~aborted' /\ ~OutsideClip(op')) =>
        /\ Len(m_requests') = Len(m_requests) + 1
        /\ SubSeq(m_requests', 1, Len(m_requests)) = m_requests
        /\ SubSeq(m_obst', 1, Len(m_obst)) = m_obst
        /\ m_requests'[Len(m_requests')] > Len(m_obst)
        /\ NewRequest.layer = op'.layer
        /\ InEnqueueOrder(m_requests) => InEnqueueOrder(m_requests') ]_vars

\* a request of a low layer has been appended behind two requests that an
\* earlier render had sorted
C18_Witness ==
  /\ op.name \in DrawCalls
  /\ m_requests = <<3, 1, 5>>
  /\ m_obst[3].layer < m_obst[1].layer
  /\ m_obst[5].layer = op.layer
  /\ m_obst[5].layer < m_obst[3].layer

\* the rectangle r lies beside the clip rectangle, sharing no point with it
RectOutsideClip(r) ==
  \/ get_right(r) < get_left(m_context.cliprect)
  \/ get_right(m_context.cliprect) < get_left(r)
  \/ get_bottom(r) < get_top(m_context.cliprect)
  \/ get_bottom(m_context.cliprect) < get_top(r)

\* C19: a draw_surface_part call whose dstrect lies entirely outside the clip
\* rectangle enqueues no request.
C19_SurfacePartCulled ==
  [][ (op'.name = "draw_surface_part" /\ op'.surface # NULL
         /\ RectOutsideClip(op'.dstrect))
        => m_requests' = m_requests ]_vars

\* the requests of the set S in the order they were enqueued in
RECURSIVE InOrderOfEnqueue(_)
InOrderOfEnqueue(S) ==
  IF S = {} THEN <<>>
  ELSE LET first == CHOOSE r \in S : \A q \in S : r = q \/ EnqueuedBefore(r, q)
       IN  <<first>> \o InOrderOfEnqueue(S \ {first})

\* C20: whenever render has run, whatever renders and draws came before it
\* since the last clear, of any two requests it dispatched the first has the
\* lower layer or the same layer and the earlier enqueue; and it dispatched
\* what a first render with its filter dispatches on a buffer holding the
\* same requests in the order they were enqueued in.
C20_RepeatedRenderKeepsOrder ==
  op.name = "render" =>
    /\ \A i, j \in 1..Len(dispatched) :
         i < j =>
           \/ DispatchedLayers[i] < DispatchedLayers[j]
           \/ /\ DispatchedLayers[i] = DispatchedLayers[j]
              /\ EnqueuedBefore(DispatchedRequests[i], DispatchedRequests[j])
    /\ LET unrendered == InOrderOfEnqueue({op.before[k] : k \in 1..Len(op.before)})
       IN  dispatched
             = DispatchAll(m_obst, m_target, op.filter, StableSort(m_obst, unrendered))

\* a render found the buffer as an earlier render had sorted it, with a
\* request appended since, and dispatched the new request between the two
\* old ones, behind the old one of its layer
C20_Witness ==
  /\ op.name = "render"
  /\ op.filter = "NONE"
  /\ op.before = <<3, 1, 5>>
  /\ DispatchedRequests = <<3, 5, 1>>
  /\ m_obst[3].layer = m_obst[5].layer
  /\ m_obst[5].layer < m_obst[1].layer

====
